---- MODULE Spec2Model ----
(***************************************************************************)
(* Model of the pet feeder controller sketch                                *)
(* (src/PetFeederFinalProject/PetFeederFinalProject.ino, lines 1-241).      *)
(*                                                                         *)
(* The sketch is one polling loop() plus one interrupt handler.  loop() is  *)
(* split into steps at the places where the interrupt handler, the serial   *)
(* receiver and the millisecond timer can be observed to interleave with    *)
(* it; pc names the next statement of loop().  Strings are sequences of     *)
(* one-character strings, so that trim, startsWith, substring and           *)
(* toUpperCase are computed.  The receive buffer holds whole lines (the     *)
(* text before each '\n').                                                  *)
(***************************************************************************)
EXTENDS Integers, Sequences, FiniteSets, TLC

\* ------------------------------------------------------------------------
\* Bounds of the model
\* ------------------------------------------------------------------------
\* largest value of millis() the model lets the clock reach
MaxMillis == 40000
\* the same under SpecTarget
MaxMillisTarget == 20000
\* the same under SpecMotion
MaxMillisMotion == 270000
\* number of complete lines the receive buffer holds
MaxRx == 2

\* ------------------------------------------------------------------------
\* Timing constants (lines 8-12)
\* ------------------------------------------------------------------------
PI_RESPONSE_TIMEOUT_MS == 20000
HEARTBEAT_INTERVAL_MS == 15000
MOTION_ACTIVE_TIMEOUT_MS == 180000
LED_FLASH_DURATION_MS == 2000
LED_BLINK_INTERVAL_MS == 200

\* unsigned long arithmetic wraps.  TLC's integers are 32-bit signed, so the
\* modulus 2^32 of the AVR's unsigned long cannot be written; every time of
\* the model is far below 2^30, where a negative difference wraps to a value
\* above every timing constant exactly as it does modulo 2^32.
ULongModulus == 2^30
USub(a, b) == (a - b) % ULongModulus

\* ------------------------------------------------------------------------
\* String literals of the sketch
\* ------------------------------------------------------------------------
PI_READY == <<"P", "I", "_", "R", "E", "A", "D", "Y">>
PI_ACK_TARGET_PREFIX == <<"P", "I", "_", "A", "C", "K", "_", "T", "A", "R", "G", "E", "T", ":">>
CAT_CONFIRMED == <<"C", "A", "T", "_", "C", "O", "N", "F", "I", "R", "M", "E", "D">>
DOG_CONFIRMED == <<"D", "O", "G", "_", "C", "O", "N", "F", "I", "R", "M", "E", "D">>
WRONG_ANIMAL_DETECTED == <<"W", "R", "O", "N", "G", "_", "A", "N", "I", "M", "A", "L", "_", "D", "E", "T", "E", "C", "T", "E", "D">>
NO_ANIMAL_DETECTED_BY_AI == <<"N", "O", "_", "A", "N", "I", "M", "A", "L", "_", "D", "E", "T", "E", "C", "T", "E", "D", "_", "B", "Y", "_", "A", "I">>
AI_NOT_READY == <<"A", "I", "_", "N", "O", "T", "_", "R", "E", "A", "D", "Y">>
NO_TARGET_CONFIGURED == <<"N", "O", "_", "T", "A", "R", "G", "E", "T", "_", "C", "O", "N", "F", "I", "G", "U", "R", "E", "D">>
PI_ERR_PREFIX == <<"P", "I", "_", "E", "R", "R">>
PI_PONG == <<"P", "I", "_", "P", "O", "N", "G">>
PI_SHUTTING_DOWN == <<"P", "I", "_", "S", "H", "U", "T", "T", "I", "N", "G", "_", "D", "O", "W", "N">>
SET_TARGET_PREFIX == <<"S", "E", "T", "_", "T", "A", "R", "G", "E", "T", ":">>
TEST_FLASH == <<"T", "E", "S", "T", "_", "F", "L", "A", "S", "H">>
CAT == <<"C", "A", "T">>
DOG == <<"D", "O", "G">>
MOTION_DETECTED == <<"M", "O", "T", "I", "O", "N", "_", "D", "E", "T", "E", "C", "T", "E", "D">>
ARDUINO_HEARTBEAT == <<"A", "R", "D", "U", "I", "N", "O", "_", "H", "E", "A", "R", "T", "B", "E", "A", "T">>
ARDUINO_BOOTING == <<"A", "R", "D", "U", "I", "N", "O", "_", "B", "O", "O", "T", "I", "N", "G">>
TARGET_ANIMAL_PREFIX == <<"T", "A", "R", "G", "E", "T", "_", "A", "N", "I", "M", "A", "L", ":">>

\* ------------------------------------------------------------------------
\* Lines the environment puts on the serial channel
\* ------------------------------------------------------------------------
LineSetTargetLowerCat == <<"S", "E", "T", "_", "T", "A", "R", "G", "E", "T", ":", "c", "a", "t", "\r">>
LineSetTargetBird == <<"S", "E", "T", "_", "T", "A", "R", "G", "E", "T", ":", "b", "i", "r", "d">>
LineAckCat == <<"P", "I", "_", "A", "C", "K", "_", "T", "A", "R", "G", "E", "T", ":", "C", "A", "T">>

\* ------------------------------------------------------------------------
\* Arduino String operations
\* ------------------------------------------------------------------------
LowerCaseLetters == <<"a", "b", "c", "d", "e", "f", "g", "h", "i", "j", "k", "l", "m", "n", "o", "p", "q", "r", "s", "t", "u", "v", "w", "x", "y", "z">>
UpperCaseLetters == <<"A", "B", "C", "D", "E", "F", "G", "H", "I", "J", "K", "L", "M", "N", "O", "P", "Q", "R", "S", "T", "U", "V", "W", "X", "Y", "Z">>

toupper(c) ==
    IF \E i \in 1..26 : LowerCaseLetters[i] = c
    THEN UpperCaseLetters[CHOOSE i \in 1..26 : LowerCaseLetters[i] = c]
    ELSE c

tolower(c) ==
    IF \E i \in 1..26 : UpperCaseLetters[i] = c
    THEN LowerCaseLetters[CHOOSE i \in 1..26 : UpperCaseLetters[i] = c]
    ELSE c

isspace(c) == c \in {" ", "\t", "\n", "\r", "\f"}

\* String::toUpperCase
toUpperCase(s) == [i \in 1..Len(s) |-> toupper(s[i])]

\* String::equalsIgnoreCase
equalsIgnoreCase(s, t) ==
    /\ Len(s) = Len(t)
    /\ \A i \in 1..Len(s) : tolower(s[i]) = tolower(t[i])

\* String::startsWith
startsWith(s, p) == Len(s) >= Len(p) /\ SubSeq(s, 1, Len(p)) = p

\* String::substring(from)
substring(s, from) == SubSeq(s, from + 1, Len(s))

\* String::trim
RECURSIVE trimLeft(_)
trimLeft(s) == IF s # <<>> /\ isspace(Head(s)) THEN trimLeft(Tail(s)) ELSE s

RECURSIVE trimRight(_)
trimRight(s) ==
    IF s # <<>> /\ isspace(s[Len(s)]) THEN trimRight(SubSeq(s, 1, Len(s) - 1)) ELSE s

trim(s) == trimRight(trimLeft(s))

Range(s) == {s[i] : i \in 1..Len(s)}

\* ------------------------------------------------------------------------
\* State
\* ------------------------------------------------------------------------
VARIABLES
    motionDetectedISRQFlag,
    piIsReady,
    awaitingPiResponseAfterMotion,
    currentTargetAnimal,
    lastMotionTimestamp,
    lastMotionSignalToPiTime,
    lastHeartbeatToPi,
    isLedFlashing,
    ledFlashStartTime,
    lastLedBlinkTime,
    ledBlinkState,
    ledPin,          \* level last written to LED_PIN
    millis,          \* the value millis() returns now
    currentMillis,   \* loop()'s local, read once per pass (line 42)
    motionIsActive,  \* loop()'s local (line 68)
    serialRx,        \* complete lines waiting in the receive buffer
    pc,              \* next statement of loop()
    sent,            \* protocol lines written by the latest step of loop()
    consumed,        \* lines the latest step of loop() took out of serialRx
    unseenEdge,      \* an interrupt fired that no later read of the flag has seen
    pendingAtStart,  \* lines buffered at line 42 of this pass and not yet taken out
    heartbeatSentAt, \* currentMillis of the latest ARDUINO_HEARTBEAT (0: none)
    staleEdge,       \* the latest edge was consumed with piIsReady false
    timedOut,        \* the latest step of loop() was the timeout clearing the flag
    flashEnded,      \* the latest step of loop() ended a flashing episode
    motionSeen,      \* loop() has consumed an edge since setup()
    lastSetTarget    \* upper-cased value of the latest SET_TARGET handled (<<>>: none)

sketchVars ==
    <<motionDetectedISRQFlag, piIsReady, awaitingPiResponseAfterMotion,
      currentTargetAnimal, lastMotionTimestamp, lastMotionSignalToPiTime,
      lastHeartbeatToPi, isLedFlashing, ledFlashStartTime, lastLedBlinkTime,
      ledBlinkState, ledPin, currentMillis, motionIsActive>>

ledVars == <<isLedFlashing, ledFlashStartTime, lastLedBlinkTime, ledBlinkState, ledPin>>

historyVars ==
    <<sent, consumed, unseenEdge, pendingAtStart, heartbeatSentAt, staleEdge, timedOut,
      flashEnded, motionSeen, lastSetTarget>>

vars == <<sketchVars, millis, serialRx, pc, historyVars>>

\* State after setup() (lines 15-39)
Init ==
    /\ motionDetectedISRQFlag = FALSE
    /\ piIsReady = FALSE
    /\ awaitingPiResponseAfterMotion = FALSE
    /\ currentTargetAnimal = DOG
    /\ lastMotionTimestamp = 0
    /\ lastMotionSignalToPiTime = 0
    /\ lastHeartbeatToPi = 0
    /\ isLedFlashing = FALSE
    /\ ledFlashStartTime = 0
    /\ lastLedBlinkTime = 0
    /\ ledBlinkState = FALSE
    /\ ledPin = FALSE
    /\ millis = 0
    /\ currentMillis = 0
    /\ motionIsActive = FALSE
    /\ serialRx = <<>>
    /\ pc = "loop"
    /\ sent = <<ARDUINO_BOOTING>>
    /\ consumed = <<>>
    /\ unseenEdge = FALSE
    /\ pendingAtStart = 0
    /\ heartbeatSentAt = 0
    /\ staleEdge = FALSE
    /\ timedOut = FALSE
    /\ flashEnded = FALSE
    /\ motionSeen = FALSE
    /\ lastSetTarget = <<>>

Max(a, b) == IF a >= b THEN a ELSE b

\* ------------------------------------------------------------------------
\* Conditions of loop() and updateLed()
\* ------------------------------------------------------------------------
\* line 54 without the test of the outstanding flag
SendMotionGuard_IgnoresOutstanding(ready, awaiting) == ready

\* line 54 without the test of piIsReady
SendMotionGuard_IgnoresReady(ready, awaiting) == ~awaiting

\* line 54: piIsReady && !awaitingPiResponseAfterMotion
SendMotionGuard(ready, awaiting) == ready /\ ~awaiting

\* line 68
MotionActive(now, lastMotion) ==
    lastMotion > 0 /\ USub(now, lastMotion) < MOTION_ACTIVE_TIMEOUT_MS

\* line 71 with >= in place of >
ResponseTimedOut_AtLimit(now, signalled) == USub(now, signalled) >= PI_RESPONSE_TIMEOUT_MS

\* line 71, second conjunct
ResponseTimedOut(now, signalled) == USub(now, signalled) > PI_RESPONSE_TIMEOUT_MS

\* line 81
HeartbeatDue(now, lastBeat) == USub(now, lastBeat) > HEARTBEAT_INTERVAL_MS

\* line 100
FlashOver(now, flashStart) == USub(now, flashStart) >= LED_FLASH_DURATION_MS

\* line 105
BlinkDue(now, lastBlink) == USub(now, lastBlink) >= LED_BLINK_INTERVAL_MS

\* ------------------------------------------------------------------------
\* Helpers called from loop()
\* ------------------------------------------------------------------------
\* sendTargetAnimalToPi (lines 182-189): the protocol lines it writes
TargetAnimalLines(ready, animal) ==
    IF ready THEN <<TARGET_ANIMAL_PREFIX \o animal>> ELSE <<>>

\* startLedFlash (lines 117-126)
startLedFlash ==
    IF ~isLedFlashing
    THEN /\ isLedFlashing' = TRUE
         /\ ledFlashStartTime' = millis
         /\ lastLedBlinkTime' = millis
         /\ ledBlinkState' = TRUE
         /\ ledPin' = TRUE
    ELSE UNCHANGED ledVars

\* the else-if chain of checkPiMessages (lines 137-178) as a classification
MessageKind(piMessage) ==
    IF piMessage = PI_READY THEN "ready"
    ELSE IF startsWith(piMessage, PI_ACK_TARGET_PREFIX) THEN "ack"
    ELSE IF piMessage = CAT_CONFIRMED THEN "cat"
    ELSE IF piMessage = DOG_CONFIRMED THEN "dog"
    ELSE IF \/ piMessage = WRONG_ANIMAL_DETECTED
            \/ piMessage = NO_ANIMAL_DETECTED_BY_AI
            \/ piMessage = AI_NOT_READY
            \/ piMessage = NO_TARGET_CONFIGURED
            \/ startsWith(piMessage, PI_ERR_PREFIX) THEN "reject"
    ELSE IF piMessage = PI_PONG THEN "pong"
    ELSE IF piMessage = PI_SHUTTING_DOWN THEN "shutdown"
    ELSE "ignored"

\* lines 150 and 158 without the comparison with the target
ConfirmsTarget_AnyAnimal(kind, target) == kind \in {"cat", "dog"}

\* lines 150 and 158: the confirmed animal is the target
ConfirmsTarget(kind, target) ==
    \/ kind = "cat" /\ target = CAT
    \/ kind = "dog" /\ target = DOG

\* line 201 accepting every value
ValidTarget_AnyValue(newTarget) == TRUE

\* line 201: newTarget.equals("CAT") || newTarget.equals("DOG")
ValidTarget(newTarget) == newTarget \in {CAT, DOG}

\* line 202 without the comparison with the current target
DiffersFromCurrent_Always(newTarget, current) == TRUE

\* line 202: !newTarget.equals(currentTargetAnimal)
DiffersFromCurrent(newTarget, current) == newTarget # current

\* Serial.peek() on a non-empty buffer: the first byte waiting
peek(rx) == IF Head(rx) = <<>> THEN "\n" ELSE Head(rx)[1]

\* lines 216 and 229: after readStringUntil took the first line, the discard
\* loop reads on up to and including the next '\n'
DiscardRestOfLine(rest) == IF rest = <<>> THEN <<>> ELSE Tail(rest)

\* ------------------------------------------------------------------------
\* loop(), statement by statement
\* ------------------------------------------------------------------------
\* line 42
LoopBegin ==
    /\ flashEnded' = FALSE
    /\ UNCHANGED <<motionSeen, lastSetTarget>>
    /\ timedOut' = FALSE
    /\ pc = "loop"
    /\ pc' = "checkPi"
    /\ currentMillis' = millis
    /\ pendingAtStart' = Len(serialRx)
    /\ sent' = <<>>
    /\ consumed' = <<>>
    /\ UNCHANGED <<motionDetectedISRQFlag, piIsReady, awaitingPiResponseAfterMotion,
                   currentTargetAnimal, lastMotionTimestamp, lastMotionSignalToPiTime,
                   lastHeartbeatToPi, ledVars, motionIsActive, millis, serialRx,
                   unseenEdge, heartbeatSentAt, staleEdge>>

\* checkPiMessages with the acknowledgment branch (lines 142-146) storing the
\* acknowledged animal as the target
CheckPiMessages_AdoptsAck ==
    /\ flashEnded' = FALSE
    /\ UNCHANGED <<motionSeen, lastSetTarget>>
    /\ timedOut' = FALSE
    /\ pc = "checkPi"
    /\ pc' = "motionIf"
    /\ IF serialRx = <<>>
       THEN /\ sent' = <<>>
            /\ consumed' = <<>>
            /\ UNCHANGED <<serialRx, piIsReady, awaitingPiResponseAfterMotion,
                           lastHeartbeatToPi, ledVars>>
       ELSE LET piMessage == trim(Head(serialRx))
                kind == MessageKind(piMessage)
            IN /\ serialRx' = Tail(serialRx)
               /\ consumed' = <<Head(serialRx)>>
               /\ IF piMessage = <<>>
                  THEN /\ sent' = <<>>
                       /\ UNCHANGED <<piIsReady, awaitingPiResponseAfterMotion,
                                      lastHeartbeatToPi, ledVars>>
                  ELSE /\ piIsReady' = CASE kind = "ready" -> TRUE
                                         [] kind = "shutdown" -> FALSE
                                         [] OTHER -> piIsReady
                       /\ sent' = IF kind = "ready"
                                  THEN TargetAnimalLines(TRUE, currentTargetAnimal)
                                  ELSE <<>>
                       /\ lastHeartbeatToPi' = IF kind \in {"ready", "pong"}
                                               THEN currentMillis
                                               ELSE lastHeartbeatToPi
                       /\ awaitingPiResponseAfterMotion' =
                              IF kind \in {"cat", "dog", "reject", "shutdown"}
                              THEN FALSE
                              ELSE awaitingPiResponseAfterMotion
                       /\ IF ConfirmsTarget(kind, currentTargetAnimal)
                          THEN startLedFlash
                          ELSE UNCHANGED ledVars
    /\ pendingAtStart' = Max(0, pendingAtStart - Len(consumed'))
    /\ currentTargetAnimal' =
           IF /\ serialRx # <<>>
              /\ startsWith(trim(Head(serialRx)), PI_ACK_TARGET_PREFIX)
           THEN substring(trim(Head(serialRx)), Len(PI_ACK_TARGET_PREFIX))
           ELSE currentTargetAnimal
    /\ UNCHANGED <<motionDetectedISRQFlag, lastMotionTimestamp,
                   lastMotionSignalToPiTime, currentMillis, motionIsActive, millis,
                   unseenEdge, heartbeatSentAt, staleEdge>>

\* line 45, checkPiMessages (lines 129-180)
CheckPiMessages ==
    /\ flashEnded' = FALSE
    /\ UNCHANGED <<motionSeen, lastSetTarget>>
    /\ timedOut' = FALSE
    /\ pc = "checkPi"
    /\ pc' = "motionIf"
    /\ IF serialRx = <<>>
       THEN /\ sent' = <<>>
            /\ consumed' = <<>>
            /\ UNCHANGED <<serialRx, piIsReady, awaitingPiResponseAfterMotion,
                           lastHeartbeatToPi, ledVars>>
       ELSE LET piMessage == trim(Head(serialRx))
                kind == MessageKind(piMessage)
            IN /\ serialRx' = Tail(serialRx)
               /\ consumed' = <<Head(serialRx)>>
               /\ IF piMessage = <<>>
                  THEN /\ sent' = <<>>
                       /\ UNCHANGED <<piIsReady, awaitingPiResponseAfterMotion,
                                      lastHeartbeatToPi, ledVars>>
                  ELSE /\ piIsReady' = CASE kind = "ready" -> TRUE
                                         [] kind = "shutdown" -> FALSE
                                         [] OTHER -> piIsReady
                       /\ sent' = IF kind = "ready"
                                  THEN TargetAnimalLines(TRUE, currentTargetAnimal)
                                  ELSE <<>>
                       /\ lastHeartbeatToPi' = IF kind \in {"ready", "pong"}
                                               THEN currentMillis
                                               ELSE lastHeartbeatToPi
                       /\ awaitingPiResponseAfterMotion' =
                              IF kind \in {"cat", "dog", "reject", "shutdown"}
                              THEN FALSE
                              ELSE awaitingPiResponseAfterMotion
                       /\ IF ConfirmsTarget(kind, currentTargetAnimal)
                          THEN startLedFlash
                          ELSE UNCHANGED ledVars
    /\ pendingAtStart' = Max(0, pendingAtStart - Len(consumed'))
    /\ UNCHANGED <<motionDetectedISRQFlag, currentTargetAnimal, lastMotionTimestamp,
                   lastMotionSignalToPiTime, currentMillis, motionIsActive, millis,
                   unseenEdge, heartbeatSentAt, staleEdge>>

\* line 48: the read of the flag
MotionIf ==
    /\ flashEnded' = FALSE
    /\ UNCHANGED <<motionSeen, lastSetTarget>>
    /\ timedOut' = FALSE
    /\ pc = "motionIf"
    /\ pc' = IF motionDetectedISRQFlag THEN "motionBody" ELSE "timeout"
    /\ unseenEdge' = IF motionDetectedISRQFlag THEN FALSE ELSE unseenEdge
    /\ sent' = <<>>
    /\ consumed' = <<>>
    /\ UNCHANGED <<sketchVars, millis, serialRx, pendingAtStart, heartbeatSentAt,
                   staleEdge>>

\* lines 49-65 with the reset of line 51 moved into the branch that sends, so
\* that an edge nobody was told about stays latched
MotionBody_KeepsUnsentEdge ==
    /\ flashEnded' = FALSE
    /\ motionSeen' = TRUE
    /\ UNCHANGED lastSetTarget
    /\ timedOut' = FALSE
    /\ pc = "motionBody"
    /\ pc' = "timeout"
    /\ lastMotionTimestamp' = currentMillis
    /\ IF SendMotionGuard(piIsReady, awaitingPiResponseAfterMotion)
       THEN /\ sent' = <<MOTION_DETECTED>>
            /\ awaitingPiResponseAfterMotion' = TRUE
            /\ lastMotionSignalToPiTime' = currentMillis
            /\ motionDetectedISRQFlag' = FALSE
       ELSE /\ sent' = <<>>
            /\ motionDetectedISRQFlag' = ~piIsReady
            /\ UNCHANGED <<awaitingPiResponseAfterMotion, lastMotionSignalToPiTime>>
    /\ staleEdge' = ~piIsReady
    /\ consumed' = <<>>
    /\ UNCHANGED <<piIsReady, currentTargetAnimal, lastHeartbeatToPi, ledVars,
                   currentMillis, motionIsActive, millis, serialRx, unseenEdge,
                   pendingAtStart, heartbeatSentAt>>

\* lines 49-65 with line 59 moved out of the branch that sends, so that every
\* edge restarts the wait
MotionBody_RestartsWait ==
    /\ flashEnded' = FALSE
    /\ motionSeen' = TRUE
    /\ UNCHANGED lastSetTarget
    /\ timedOut' = FALSE
    /\ pc = "motionBody"
    /\ pc' = "timeout"
    /\ lastMotionTimestamp' = currentMillis
    /\ motionDetectedISRQFlag' = FALSE
    /\ IF SendMotionGuard(piIsReady, awaitingPiResponseAfterMotion)
       THEN /\ sent' = <<MOTION_DETECTED>>
            /\ awaitingPiResponseAfterMotion' = TRUE
            /\ lastMotionSignalToPiTime' = currentMillis
       ELSE /\ sent' = <<>>
            /\ lastMotionSignalToPiTime' = currentMillis
            /\ UNCHANGED awaitingPiResponseAfterMotion
    /\ staleEdge' = ~piIsReady
    /\ consumed' = <<>>
    /\ UNCHANGED <<piIsReady, currentTargetAnimal, lastHeartbeatToPi, ledVars,
                   currentMillis, motionIsActive, millis, serialRx, unseenEdge,
                   pendingAtStart, heartbeatSentAt>>

\* lines 49-65
MotionBody ==
    /\ flashEnded' = FALSE
    /\ motionSeen' = TRUE
    /\ UNCHANGED lastSetTarget
    /\ timedOut' = FALSE
    /\ pc = "motionBody"
    /\ pc' = "timeout"
    /\ lastMotionTimestamp' = currentMillis
    /\ motionDetectedISRQFlag' = FALSE
    /\ IF SendMotionGuard(piIsReady, awaitingPiResponseAfterMotion)
       THEN /\ sent' = <<MOTION_DETECTED>>
            /\ awaitingPiResponseAfterMotion' = TRUE
            /\ lastMotionSignalToPiTime' = currentMillis
       ELSE /\ sent' = <<>>
            /\ UNCHANGED <<awaitingPiResponseAfterMotion, lastMotionSignalToPiTime>>
    /\ staleEdge' = ~piIsReady
    /\ consumed' = <<>>
    /\ UNCHANGED <<piIsReady, currentTargetAnimal, lastHeartbeatToPi, ledVars,
                   currentMillis, motionIsActive, millis, serialRx, unseenEdge,
                   pendingAtStart, heartbeatSentAt>>

\* lines 68-74
ResponseTimeout ==
    /\ flashEnded' = FALSE
    /\ UNCHANGED <<motionSeen, lastSetTarget>>
    /\ timedOut' = /\ awaitingPiResponseAfterMotion
                   /\ ResponseTimedOut(currentMillis, lastMotionSignalToPiTime)
    /\ pc = "timeout"
    /\ pc' = "updateLed"
    /\ motionIsActive' = MotionActive(currentMillis, lastMotionTimestamp)
    /\ awaitingPiResponseAfterMotion' =
           IF /\ awaitingPiResponseAfterMotion
              /\ ResponseTimedOut(currentMillis, lastMotionSignalToPiTime)
           THEN FALSE
           ELSE awaitingPiResponseAfterMotion
    /\ sent' = <<>>
    /\ consumed' = <<>>
    /\ UNCHANGED <<motionDetectedISRQFlag, piIsReady, currentTargetAnimal,
                   lastMotionTimestamp, lastMotionSignalToPiTime, lastHeartbeatToPi,
                   ledVars, currentMillis, millis, serialRx, unseenEdge,
                   pendingAtStart, heartbeatSentAt, staleEdge>>

\* updateLed with line 102 writing LOW when the flash is over
updateLed_ExitsToIdle ==
    /\ flashEnded' = (isLedFlashing /\ FlashOver(currentMillis, ledFlashStartTime))
    /\ UNCHANGED <<motionSeen, lastSetTarget>>
    /\ timedOut' = FALSE
    /\ pc = "updateLed"
    /\ pc' = "heartbeat"
    /\ IF isLedFlashing
       THEN IF FlashOver(currentMillis, ledFlashStartTime)
            THEN /\ isLedFlashing' = FALSE
                 /\ ledPin' = FALSE
                 /\ UNCHANGED <<ledFlashStartTime, lastLedBlinkTime, ledBlinkState>>
            ELSE IF BlinkDue(currentMillis, lastLedBlinkTime)
                 THEN /\ ledBlinkState' = ~ledBlinkState
                      /\ ledPin' = ~ledBlinkState
                      /\ lastLedBlinkTime' = currentMillis
                      /\ UNCHANGED <<isLedFlashing, ledFlashStartTime>>
                 ELSE UNCHANGED ledVars
       ELSE /\ ledPin' = motionIsActive
            /\ UNCHANGED <<isLedFlashing, ledFlashStartTime, lastLedBlinkTime,
                           ledBlinkState>>
    /\ sent' = <<>>
    /\ consumed' = <<>>
    /\ UNCHANGED <<motionDetectedISRQFlag, piIsReady, awaitingPiResponseAfterMotion,
                   currentTargetAnimal, lastMotionTimestamp, lastMotionSignalToPiTime,
                   lastHeartbeatToPi, currentMillis, motionIsActive, millis, serialRx,
                   unseenEdge, pendingAtStart, heartbeatSentAt, staleEdge>>

\* line 77, updateLed (lines 97-115)
updateLed ==
    /\ flashEnded' = (isLedFlashing /\ FlashOver(currentMillis, ledFlashStartTime))
    /\ UNCHANGED <<motionSeen, lastSetTarget>>
    /\ timedOut' = FALSE
    /\ pc = "updateLed"
    /\ pc' = "heartbeat"
    /\ IF isLedFlashing
       THEN IF FlashOver(currentMillis, ledFlashStartTime)
            THEN /\ isLedFlashing' = FALSE
                 /\ ledPin' = motionIsActive
                 /\ UNCHANGED <<ledFlashStartTime, lastLedBlinkTime, ledBlinkState>>
            ELSE IF BlinkDue(currentMillis, lastLedBlinkTime)
                 THEN /\ ledBlinkState' = ~ledBlinkState
                      /\ ledPin' = ~ledBlinkState
                      /\ lastLedBlinkTime' = currentMillis
                      /\ UNCHANGED <<isLedFlashing, ledFlashStartTime>>
                 ELSE UNCHANGED ledVars
       ELSE /\ ledPin' = motionIsActive
            /\ UNCHANGED <<isLedFlashing, ledFlashStartTime, lastLedBlinkTime,
                           ledBlinkState>>
    /\ sent' = <<>>
    /\ consumed' = <<>>
    /\ UNCHANGED <<motionDetectedISRQFlag, piIsReady, awaitingPiResponseAfterMotion,
                   currentTargetAnimal, lastMotionTimestamp, lastMotionSignalToPiTime,
                   lastHeartbeatToPi, currentMillis, motionIsActive, millis, serialRx,
                   unseenEdge, pendingAtStart, heartbeatSentAt, staleEdge>>

\* lines 81-84
Heartbeat ==
    /\ flashEnded' = FALSE
    /\ UNCHANGED <<motionSeen, lastSetTarget>>
    /\ timedOut' = FALSE
    /\ pc = "heartbeat"
    /\ pc' = "local"
    /\ IF HeartbeatDue(currentMillis, lastHeartbeatToPi)
       THEN /\ sent' = <<ARDUINO_HEARTBEAT>>
            /\ lastHeartbeatToPi' = currentMillis
            /\ heartbeatSentAt' = currentMillis
       ELSE /\ sent' = <<>>
            /\ UNCHANGED <<lastHeartbeatToPi, heartbeatSentAt>>
    /\ consumed' = <<>>
    /\ UNCHANGED <<motionDetectedISRQFlag, piIsReady, awaitingPiResponseAfterMotion,
                   currentTargetAnimal, lastMotionTimestamp, lastMotionSignalToPiTime,
                   ledVars, currentMillis, motionIsActive, millis, serialRx,
                   unseenEdge, pendingAtStart, staleEdge>>

\* line 87, handleLocalCommands (lines 191-238)
handleLocalCommands ==
    /\ flashEnded' = FALSE
    /\ UNCHANGED motionSeen
    /\ timedOut' = FALSE
    /\ pc = "local"
    /\ pc' = "loop"
    /\ IF serialRx = <<>>
       THEN /\ sent' = <<>>
            /\ consumed' = <<>>
            /\ UNCHANGED <<serialRx, currentTargetAnimal, ledVars, lastSetTarget>>
       ELSE LET firstChar == peek(serialRx)
                command == trim(Head(serialRx))
                rest == Tail(serialRx)
            IN IF firstChar = "S"
               THEN IF startsWith(command, SET_TARGET_PREFIX)
                    THEN LET newTarget == toUpperCase(substring(command, 11))
                             changes == /\ ValidTarget(newTarget)
                                        /\ DiffersFromCurrent(newTarget, currentTargetAnimal)
                         IN /\ serialRx' = rest
                            /\ lastSetTarget' = newTarget
                            /\ consumed' = <<Head(serialRx)>>
                            /\ currentTargetAnimal' =
                                   IF changes THEN newTarget ELSE currentTargetAnimal
                            /\ sent' = IF changes
                                       THEN TargetAnimalLines(piIsReady, newTarget)
                                       ELSE <<>>
                            /\ UNCHANGED ledVars
                    ELSE /\ serialRx' = DiscardRestOfLine(rest)
                         /\ consumed' = SubSeq(serialRx, 1, Len(serialRx) - Len(serialRx'))
                         /\ sent' = <<>>
                         /\ UNCHANGED <<currentTargetAnimal, ledVars, lastSetTarget>>
               ELSE IF firstChar = "T"
               THEN IF equalsIgnoreCase(command, TEST_FLASH)
                    THEN /\ serialRx' = rest
                         /\ consumed' = <<Head(serialRx)>>
                         /\ sent' = <<>>
                         /\ startLedFlash
                         /\ UNCHANGED <<currentTargetAnimal, lastSetTarget>>
                    ELSE /\ serialRx' = DiscardRestOfLine(rest)
                         /\ consumed' = SubSeq(serialRx, 1, Len(serialRx) - Len(serialRx'))
                         /\ sent' = <<>>
                         /\ UNCHANGED <<currentTargetAnimal, ledVars, lastSetTarget>>
               ELSE /\ serialRx' = <<>>
                    /\ consumed' = serialRx
                    /\ sent' = <<>>
                    /\ UNCHANGED <<currentTargetAnimal, ledVars, lastSetTarget>>
    /\ pendingAtStart' = Max(0, pendingAtStart - Len(consumed'))
    /\ UNCHANGED <<motionDetectedISRQFlag, piIsReady, awaitingPiResponseAfterMotion,
                   lastMotionTimestamp, lastMotionSignalToPiTime, lastHeartbeatToPi,
                   currentMillis, motionIsActive, millis, unseenEdge,
                   heartbeatSentAt, staleEdge>>

\* ------------------------------------------------------------------------
\* The interrupt handler and the environment
\* ------------------------------------------------------------------------
\* handleMotionISR (lines 91-94), run on a rising edge of PIR_PIN
handleMotionISR ==
    /\ UNCHANGED <<flashEnded, motionSeen, lastSetTarget>>
    /\ motionDetectedISRQFlag' = TRUE
    /\ unseenEdge' = TRUE
    /\ staleEdge' = FALSE
    /\ UNCHANGED <<piIsReady, awaitingPiResponseAfterMotion, currentTargetAnimal,
                   lastMotionTimestamp, lastMotionSignalToPiTime, lastHeartbeatToPi,
                   ledVars, currentMillis, motionIsActive, millis, serialRx, pc,
                   sent, consumed, pendingAtStart, heartbeatSentAt, timedOut>>

\* the receiver stores one more complete line (line 28: Serial.begin)
SerialArrive(line) ==
    /\ Len(serialRx) < MaxRx
    /\ serialRx' = Append(serialRx, line)
    /\ UNCHANGED <<sketchVars, millis, pc, historyVars>>

\* the timer behind millis() advances by d milliseconds
ClockAdvance(d, horizon) ==
    /\ millis + d <= horizon
    /\ millis' = millis + d
    /\ UNCHANGED <<sketchVars, serialRx, pc, historyVars>>

LoopStep ==
    \/ LoopBegin
    \/ CheckPiMessages
    \/ MotionIf
    \/ MotionBody
    \/ ResponseTimeout
    \/ updateLed
    \/ Heartbeat
    \/ handleLocalCommands

\* ------------------------------------------------------------------------
\* Specifications: the sketch under three environments
\* ------------------------------------------------------------------------
\* the clock moves in steps of the response timeout
ClockSteps == {PI_RESPONSE_TIMEOUT_MS}

\* the companion's handshake, a confirmation of the default target, shutdown
ProtocolLines == {PI_READY, DOG_CONFIRMED, PI_SHUTTING_DOWN}

Next ==
    \/ LoopStep
    \/ handleMotionISR
    \/ \E line \in ProtocolLines : SerialArrive(line)
    \/ \E d \in ClockSteps : ClockAdvance(d, MaxMillis)

Spec == Init /\ [][Next]_vars

\* the operator changes the target while the companion confirms either animal
TargetLines == {PI_READY, CAT_CONFIRMED, DOG_CONFIRMED, LineSetTargetLowerCat}

NextTarget ==
    \/ LoopStep
    \/ handleMotionISR
    \/ \E line \in TargetLines : SerialArrive(line)
    \/ \E d \in ClockSteps : ClockAdvance(d, MaxMillisTarget)

SpecTarget == Init /\ [][NextTarget]_vars

\* the operator sends a valid and an invalid target while the companion
\* acknowledges a target
ConfigLines == {PI_READY, LineAckCat, LineSetTargetLowerCat, LineSetTargetBird}

NextConfig ==
    \/ LoopStep
    \/ handleMotionISR
    \/ \E line \in ConfigLines : SerialArrive(line)
    \/ \E d \in ClockSteps : ClockAdvance(d, MaxMillisTarget)

SpecConfig == Init /\ [][NextConfig]_vars

\* the clock moves in steps of half the motion window, so that the window of
\* an edge is seen open and closed
MotionClockSteps == {MOTION_ACTIVE_TIMEOUT_MS \div 2}

\* handshake and confirmation of the default target
MotionLines == {PI_READY, DOG_CONFIRMED}

NextMotion ==
    \/ LoopStep
    \/ handleMotionISR
    \/ \E line \in MotionLines : SerialArrive(line)
    \/ \E d \in MotionClockSteps : ClockAdvance(d, MaxMillisMotion)

SpecMotion == Init /\ [][NextMotion]_vars

\* handshake and shutdown only: the companion answers no request
LiveLines == {PI_READY, PI_SHUTTING_DOWN}

ClockTick == \E d \in ClockSteps : ClockAdvance(d, MaxMillis)

NextLive ==
    \/ LoopStep
    \/ handleMotionISR
    \/ \E line \in LiveLines : SerialArrive(line)
    \/ ClockTick

\* loop() is called again and again (the Arduino core's main) and the timer
\* behind millis() keeps counting
SpecLive == Init /\ [][NextLive]_vars /\ WF_vars(LoopStep) /\ WF_vars(ClockTick)

\* ------------------------------------------------------------------------
\* Properties
\* ------------------------------------------------------------------------
\* the trimmed texts of the lines the step just taken removed from the buffer
Took(line) == \E i \in 1..Len(consumed') : trim(consumed'[i]) = line

\* C1: at most one motion notification is outstanding.  A step of loop() that
\* writes MOTION_DETECTED is the motion branch, starts with the outstanding
\* flag false and ends with it true; the motion branch entered with the flag
\* true writes no MOTION_DETECTED and leaves the flag and
\* lastMotionSignalToPiTime as they were.
C1_AtMostOneOutstanding ==
    [][/\ (pc' # pc /\ MOTION_DETECTED \in Range(sent'))
            => /\ pc = "motionBody"
               /\ ~awaitingPiResponseAfterMotion
               /\ awaitingPiResponseAfterMotion'
       /\ (pc = "motionBody" /\ pc' # pc /\ awaitingPiResponseAfterMotion)
            => /\ MOTION_DETECTED \notin Range(sent')
               /\ awaitingPiResponseAfterMotion'
               /\ lastMotionSignalToPiTime' = lastMotionSignalToPiTime]_vars

\* an edge was consumed, after the request was issued, while it is outstanding
C1_Witness ==
    /\ pc = "timeout"
    /\ awaitingPiResponseAfterMotion
    /\ lastMotionTimestamp = currentMillis
    /\ lastMotionTimestamp > lastMotionSignalToPiTime
    /\ sent = <<>>

\* C2: whenever the line SET_TARGET:cat is taken from the serial channel while
\* the target is DOG, the target becomes CAT and TARGET_ANIMAL:CAT is written
\* if the companion is ready, whichever statement of loop() takes the line.
C2_SetTargetAlwaysApplied ==
    [][(pc' # pc /\ currentTargetAnimal = DOG
            /\ Took(SET_TARGET_PREFIX \o <<"c", "a", "t">>))
          => /\ currentTargetAnimal' = CAT
             /\ piIsReady' => sent' = <<TARGET_ANIMAL_PREFIX \o CAT>>]_vars

\* C3: every <ANIMAL>_CONFIRMED line for the current target that is taken from
\* the channel puts the LED into a flashing episode that starts at that
\* moment, and an episode ends only once LED_FLASH_DURATION_MS have passed
\* since its start, with the LED then showing the motion-active derivation of
\* that pass.
C3_ConfirmationAlwaysFlashes ==
    [][/\ (pc' # pc /\ \/ (currentTargetAnimal = CAT /\ Took(CAT_CONFIRMED))
                       \/ (currentTargetAnimal = DOG /\ Took(DOG_CONFIRMED)))
            => /\ isLedFlashing'
               /\ ledFlashStartTime' = millis
       /\ (isLedFlashing /\ ~isLedFlashing')
            => /\ millis - ledFlashStartTime >= LED_FLASH_DURATION_MS
               /\ ledPin' = (/\ lastMotionTimestamp > 0
                             /\ currentMillis - lastMotionTimestamp
                                    < MOTION_ACTIVE_TIMEOUT_MS)]_vars

\* C4: when loop() examines the motion flag, every line that was in the
\* receive buffer at the start of the pass has been taken out of it.
C4_DrainedBeforeMotion == pc = "motionIf" => pendingAtStart = 0

\* C5: no motion edge is lost: an edge that no read of the flag has seen yet
\* is still latched in the flag.
C5_NoEdgeLost == unseenEdge => motionDetectedISRQFlag

\* C6: the heartbeat cadence does not depend on the companion: no pass of
\* loop() gets past the heartbeat check with more than HEARTBEAT_INTERVAL_MS
\* elapsed since the latest ARDUINO_HEARTBEAT was written.
C6_HeartbeatCadence ==
    pc = "local" => currentMillis - heartbeatSentAt <= HEARTBEAT_INTERVAL_MS

\* C7: whenever PI_SHUTTING_DOWN is taken from the channel, piIsReady and the
\* outstanding flag are both false afterwards.
C7_ShutdownAlwaysClears ==
    [][(pc' # pc /\ Took(PI_SHUTTING_DOWN))
          => (~piIsReady' /\ ~awaitingPiResponseAfterMotion')]_vars

\* C8: an outstanding request stays outstanding until a companion response or
\* shutdown is dispatched or the timeout check runs with more than
\* PI_RESPONSE_TIMEOUT_MS elapsed since the request; the timeout check clears
\* it exactly then, writes no protocol line and leaves piIsReady, the target
\* and the LED state as they were.
C8_SilentTimeout ==
    [][/\ (pc = "timeout" /\ pc' # pc /\ awaitingPiResponseAfterMotion)
            => /\ awaitingPiResponseAfterMotion' =
                      (currentMillis - lastMotionSignalToPiTime <= PI_RESPONSE_TIMEOUT_MS)
               /\ sent' = <<>>
               /\ piIsReady' = piIsReady
               /\ currentTargetAnimal' = currentTargetAnimal
               /\ ledVars' = ledVars
       /\ (awaitingPiResponseAfterMotion /\ ~awaitingPiResponseAfterMotion')
            => \/ pc = "timeout"
               \/ /\ pc = "checkPi"
                  /\ \/ Took(DOG_CONFIRMED)
                     \/ Took(CAT_CONFIRMED)
                     \/ Took(PI_SHUTTING_DOWN)]_vars

\* the timeout check has just cleared the request of a ready companion
C8_Witness ==
    /\ timedOut
    /\ pc = "updateLed"
    /\ piIsReady
    /\ ~awaitingPiResponseAfterMotion
    /\ currentMillis - lastMotionSignalToPiTime > PI_RESPONSE_TIMEOUT_MS

\* C9: checkPiMessages dispatching CAT_CONFIRMED or DOG_CONFIRMED for an animal
\* that is not the target clears the outstanding flag and leaves
\* isLedFlashing, ledFlashStartTime and the LED output as they were.
C9_MismatchNeverFlashes ==
    [][(pc = "checkPi" /\ pc' # pc /\ serialRx # <<>> /\
          \/ (trim(Head(serialRx)) = CAT_CONFIRMED /\ currentTargetAnimal # CAT)
          \/ (trim(Head(serialRx)) = DOG_CONFIRMED /\ currentTargetAnimal # DOG))
          => /\ ~awaitingPiResponseAfterMotion'
             /\ isLedFlashing' = isLedFlashing
             /\ ledFlashStartTime' = ledFlashStartTime
             /\ ledPin' = ledPin]_vars

\* DOG_CONFIRMED has just been dispatched while the target is CAT
C9_Witness ==
    /\ pc = "motionIf"
    /\ consumed = <<DOG_CONFIRMED>>
    /\ currentTargetAnimal = CAT
    /\ piIsReady
    /\ lastMotionSignalToPiTime > 0
    /\ ~isLedFlashing

\* C10: once an edge has been consumed while piIsReady was false, no step of
\* loop() writes MOTION_DETECTED until another edge occurs, whatever the
\* companion sends in between.
C10_EdgesNotQueued ==
    [][(staleEdge /\ pc' # pc) => MOTION_DETECTED \notin Range(sent')]_vars

\* PI_READY has just been dispatched after an edge that found the companion
\* not ready, and no edge has occurred since
C10_Witness ==
    /\ staleEdge
    /\ pc = "motionIf"
    /\ consumed = <<PI_READY>>
    /\ piIsReady
    /\ lastMotionTimestamp > 0
    /\ ~motionDetectedISRQFlag

\* handleLocalCommands is about to handle a SET_TARGET: line
HandlesSetTarget ==
    /\ pc = "local"
    /\ pc' # pc
    /\ serialRx # <<>>
    /\ Head(serialRx) # <<>>
    /\ Head(serialRx)[1] = "S"
    /\ Len(trim(Head(serialRx))) >= 11
    /\ SubSeq(trim(Head(serialRx)), 1, 11) = SET_TARGET_PREFIX

\* the value of that line, upper-cased
Candidate ==
    LET command == trim(Head(serialRx))
    IN [i \in 1..(Len(command) - 11) |-> toupper(command[i + 11])]

\* C11: setTarget is idempotent: handling SET_TARGET with the value the
\* previous handled SET_TARGET had leaves the target as it is and writes no
\* TARGET_ANIMAL line, companion ready or not.
C11_SetTargetIdempotent ==
    [][(HandlesSetTarget /\ Candidate = lastSetTarget)
          => /\ currentTargetAnimal' = currentTargetAnimal
             /\ sent' = <<>>]_vars

\* SET_TARGET:cat has just been handled a second time, with the companion
\* ready, and nothing was written
C11_Witness ==
    /\ pc = "loop"
    /\ consumed = <<LineSetTargetLowerCat>>
    /\ lastSetTarget = CAT
    /\ currentTargetAnimal = CAT
    /\ piIsReady
    /\ sent = <<>>

\* C12: handling SET_TARGET with a value that is neither CAT nor DOG after
\* upper-casing changes nothing: the target, piIsReady, the outstanding flag
\* and the LED state stay as they were and no TARGET_ANIMAL line is written.
C12_InvalidTargetRejected ==
    [][(HandlesSetTarget /\ Candidate # CAT /\ Candidate # DOG)
          => /\ currentTargetAnimal' = currentTargetAnimal
             /\ sent' = <<>>
             /\ piIsReady' = piIsReady
             /\ awaitingPiResponseAfterMotion' = awaitingPiResponseAfterMotion
             /\ ledVars' = ledVars]_vars

\* SET_TARGET:bird has just been handled with the companion ready
C12_Witness ==
    /\ pc = "loop"
    /\ consumed = <<LineSetTargetBird>>
    /\ lastSetTarget = <<"B", "I", "R", "D">>
    /\ piIsReady
    /\ currentTargetAnimal \in {CAT, DOG}
    /\ sent = <<>>

\* the parts of the run of C13 up to the flash: PI_READY dispatched with the
\* target DOG writes TARGET_ANIMAL:DOG, an edge consumed with the companion
\* ready and nothing outstanding writes MOTION_DETECTED, and DOG_CONFIRMED
\* dispatched with the target DOG leaves the LED flashing
ScenarioUpToFlash ==
    /\ (pc = "checkPi" /\ pc' # pc /\ serialRx # <<>>
            /\ trim(Head(serialRx)) = PI_READY /\ currentTargetAnimal = DOG)
         => (piIsReady' /\ sent' = <<TARGET_ANIMAL_PREFIX \o DOG>>)
    /\ (pc = "motionBody" /\ pc' # pc /\ piIsReady /\ ~awaitingPiResponseAfterMotion)
         => (awaitingPiResponseAfterMotion' /\ sent' = <<MOTION_DETECTED>>)
    /\ (pc = "checkPi" /\ pc' # pc /\ serialRx # <<>>
            /\ trim(Head(serialRx)) = DOG_CONFIRMED /\ currentTargetAnimal = DOG)
         => (isLedFlashing' /\ ~awaitingPiResponseAfterMotion')

\* the latest edge consumed is the one the companion was told about and no
\* edge is waiting
NoFurtherEdge ==
    /\ motionSeen
    /\ lastMotionTimestamp = lastMotionSignalToPiTime
    /\ ~motionDetectedISRQFlag

C14_SensingWhateverCompanion ==
    [][/\ (pc = "motionIf" /\ pc' # pc /\ motionDetectedISRQFlag)
            => pc' = "motionBody"
       /\ (pc = "motionBody" /\ pc' # pc)
            => (lastMotionTimestamp' = currentMillis /\ ~motionDetectedISRQFlag')
       /\ (pc = "updateLed" /\ pc' # pc /\ ~isLedFlashing')
            => ledPin' = (/\ motionSeen
                          /\ currentMillis - lastMotionTimestamp
                                 < MOTION_ACTIVE_TIMEOUT_MS)]_vars

\* C15: with loop() running and the clock advancing, an outstanding request
\* does not stay outstanding for ever, even if the companion stays silent and
\* edges keep arriving: every state in which the flag is true, and from which
\* the clock of the model can still pass the deadline of the request, is
\* followed by a state in which the flag is false.
C15_RequestNeverStuck ==
    (/\ awaitingPiResponseAfterMotion
     /\ lastMotionSignalToPiTime + 2 * PI_RESPONSE_TIMEOUT_MS <= MaxMillis)
        ~> ~awaitingPiResponseAfterMotion

\* the timeout has just cleared a request during which a later edge was
\* consumed and another is waiting
C15_Witness ==
    /\ timedOut
    /\ ~awaitingPiResponseAfterMotion
    /\ lastMotionTimestamp > lastMotionSignalToPiTime
    /\ motionDetectedISRQFlag
    /\ serialRx = <<>>

\* C16: while the LED is flashing its output changes only by the blink
\* toggle, at most once per LED_BLINK_INTERVAL_MS, while every consumed edge
\* still updates lastMotionTimestamp; the motion-active value is written
\* first in the pass in which LED_FLASH_DURATION_MS or more have elapsed since
\* the flash began, and it is the derivation of that pass.
C16_FlashOverridesMotion ==
    [][/\ (isLedFlashing /\ isLedFlashing' /\ ledPin' # ledPin)
            => /\ pc = "updateLed"
               /\ currentMillis - lastLedBlinkTime >= LED_BLINK_INTERVAL_MS
               /\ ledBlinkState' = ~ledBlinkState
               /\ ledPin' = ledBlinkState'
               /\ lastLedBlinkTime' = currentMillis
       /\ (pc = "motionBody" /\ pc' # pc)
            => lastMotionTimestamp' = currentMillis
       /\ (isLedFlashing /\ ~isLedFlashing')
            => /\ pc = "updateLed"
               /\ currentMillis - ledFlashStartTime >= LED_FLASH_DURATION_MS
               /\ ledPin' = (/\ lastMotionTimestamp > 0
                             /\ currentMillis - lastMotionTimestamp
                                    < MOTION_ACTIVE_TIMEOUT_MS)]_vars

\* C17: the target is changed only by handleLocalCommands handling a
\* SET_TARGET: line, and then to the upper-cased value of that line, which is
\* CAT or DOG; no line dispatched by checkPiMessages and no timer step
\* changes it.
C17_TargetOnlySetLocally ==
    [][currentTargetAnimal' # currentTargetAnimal
          => /\ HandlesSetTarget
             /\ currentTargetAnimal' = Candidate
             /\ Candidate \in {CAT, DOG}]_vars

\* PI_ACK_TARGET:CAT has just been dispatched while the target is DOG
C17_Witness ==
    /\ pc = "motionIf"
    /\ consumed = <<LineAckCat>>
    /\ currentTargetAnimal = DOG
    /\ piIsReady

\* C18: when the first line handleLocalCommands sees is neither a SET_TARGET:
\* line nor TEST_FLASH, the target, piIsReady, the outstanding flag and the
\* LED state stay as they were and only that line leaves the buffer: the
\* lines behind it are still there for a later step.
C18_OtherInputDiscardedAlone ==
    [][(/\ pc = "local"
        /\ pc' # pc
        /\ serialRx # <<>>
        /\ ~HandlesSetTarget
        /\ ~(/\ Len(trim(Head(serialRx))) = Len(TEST_FLASH)
             /\ \A i \in 1..Len(TEST_FLASH) :
                    toupper(trim(Head(serialRx))[i]) = TEST_FLASH[i]))
          => /\ currentTargetAnimal' = currentTargetAnimal
             /\ piIsReady' = piIsReady
             /\ awaitingPiResponseAfterMotion' = awaitingPiResponseAfterMotion
             /\ ledVars' = ledVars
             /\ serialRx' = Tail(serialRx)]_vars

\* C19: a request is outstanding only while the companion is marked ready.
C19_OutstandingImpliesReady == awaitingPiResponseAfterMotion => piIsReady

\* a repeated PI_READY has just been dispatched while a request is outstanding
C19_Witness ==
    /\ awaitingPiResponseAfterMotion
    /\ piIsReady
    /\ pc = "motionIf"
    /\ consumed = <<PI_READY>>
    /\ lastMotionSignalToPiTime < currentMillis

\* C20: a matching confirmation or TEST_FLASH taken while the LED is flashing
\* leaves ledFlashStartTime, lastLedBlinkTime and ledBlinkState as they are,
\* and an episode ends in the first pass of updateLed that is
\* LED_FLASH_DURATION_MS or more after its start, not before and not later.
C20_RetriggerIsNoOp ==
    [][/\ (/\ isLedFlashing
           /\ \/ /\ pc = "checkPi"
                 /\ pc' # pc
                 /\ \/ (currentTargetAnimal = CAT /\ Took(CAT_CONFIRMED))
                    \/ (currentTargetAnimal = DOG /\ Took(DOG_CONFIRMED))
              \/ /\ pc = "local"
                 /\ pc' # pc
                 /\ Took(TEST_FLASH))
            => /\ isLedFlashing'
               /\ ledFlashStartTime' = ledFlashStartTime
               /\ lastLedBlinkTime' = lastLedBlinkTime
               /\ ledBlinkState' = ledBlinkState
       /\ (isLedFlashing /\ ~isLedFlashing')
            => currentMillis - ledFlashStartTime >= LED_FLASH_DURATION_MS
       /\ (/\ pc = "updateLed"
           /\ pc' # pc
           /\ isLedFlashing
           /\ currentMillis - ledFlashStartTime >= LED_FLASH_DURATION_MS)
            => ~isLedFlashing']_vars

====
